---- MODULE Spec2Model ----
(***************************************************************************)
(* ghii-yaml-loader: the factory yamlLoader(config, ...filePathToken) and  *)
(* the asynchronous loader yamlFileLoader it returns.                      *)
(*                                                                         *)
(* The repository holds three texts of yamlLoader:                         *)
(*   "legacy"     src/src/yaml-loader.ts            (existsSync in the     *)
(*                factory, none in the loader),                            *)
(*   "current"    src/unnamed/part_000              (existsSync in the     *)
(*                loader, which goes on to stat when throwOnError is off), *)
(*   "documented" src/src/__test__/yaml-loader.test.ts:241-301 (existsSync *)
(*                in the loader, which returns {} when throwOnError is     *)
(*                off).                                                    *)
(* impl selects the text a behaviour runs.  The filesystem is one entry,   *)
(* the one at sourcePath; it changes under the loader's feet between the   *)
(* loader's suspension points (await stat, await readFile).                *)
(* Strings (messages, error texts) are sequences of tokens, so that        *)
(* concatenation and "contains sourcePath" are computed, not assumed.      *)
(* The logger is the default one, console.log, which does not throw.       *)
(***************************************************************************)
EXTENDS Naturals, Sequences, FiniteSets

VARIABLES impl, fs, loader, call

vars == <<impl, fs, loader, call>>

\* ------------------------------------------------------------------ bounds
MaxLoaders == 2
MaxCalls == 2

Impls == {"legacy", "current", "documented"}
Loaders == 1..MaxLoaders
Calls == 1..MaxCalls

\* ------------------------------------------------------- values and strings
\* path.join(...filePathToken): fixed when the factory is called.
sourcePath == "dir/config.yaml"

\* throwOnError?: boolean -- true, false or left out (undefined).
ThrowOnErrorValues == {"true", "false", "omitted"}

\* if (throwOnError): only true is truthy.
Truthy(t) == t = "true"

\* Texts a file may hold.
YamlBlock == "foo: {ciao: mondo}"
YamlFlow == "{foo: {ciao: mondo}}"
YamlEmptyMap == "{}"
YamlMalformed == "foo: ["
Contents == {YamlBlock, YamlFlow, YamlEmptyMap, YamlMalformed}
NoText == ""

\* Parsed documents.
DocFoo == "doc {foo: {ciao: 'mondo'}}"
EmptyMapping == "doc {}"
NoDoc == "no document"

\* A thrown or logged value: an Error carrying a message, or a plain object.
ErrorOf(m) == [isError |-> TRUE, message |-> m]
PlainObject(m) == [isError |-> FALSE, message |-> m]
NoError == PlainObject(<<>>)

\* `${sourcePath} 404`
MsgNotFound == <<sourcePath, " 404">>

\* `Source ${sourcePath} is not a file`
MsgNotAFile == <<"Source ", sourcePath, " is not a file">>

\* err instanceof Error ? err.message : ''
ErrText(err) == IF err.isError THEN err.message ELSE <<>>

\* Mutant of MsgGeneric: the original error's message is dropped.
MsgGeneric_noErrText(err) ==
    <<"FILE DELETED OR A DIRECTORY-> ", sourcePath, " 404: ">>

\* `FILE DELETED OR A DIRECTORY-> ${sourcePath} 404: ${...}`
MsgGeneric(err) ==
    <<"FILE DELETED OR A DIRECTORY-> ", sourcePath, " 404: ">> \o ErrText(err)

\* ------------------------------------------------------------ the filesystem
\* The entry at sourcePath: nothing, a directory, a regular file the process
\* may not open (its text is then out of reach), or a regular file and its text.
FsMissing == [kind |-> "missing", content |-> NoText, readable |-> FALSE]
FsDirectory == [kind |-> "dir", content |-> NoText, readable |-> TRUE]
FsUnreadable == [kind |-> "file", content |-> NoText, readable |-> FALSE]
FsFile(text) == [kind |-> "file", content |-> text, readable |-> TRUE]
FsStates == {FsMissing, FsDirectory, FsUnreadable} \cup {FsFile(x) : x \in Contents}

\* fs.existsSync(sourcePath)
existsSync(f) == f.kind # "missing"

\* await stat(sourcePath): rejects with ENOENT when the entry is gone.
stat(f) ==
    IF f.kind = "missing"
    THEN [ok |-> FALSE, isFile |-> FALSE,
          err |-> ErrorOf(<<"ENOENT: no such file or directory, stat '", sourcePath, "'">>)]
    ELSE [ok |-> TRUE, isFile |-> f.kind = "file", err |-> NoError]

\* await readFile(sourcePath, {encoding: 'utf8'})
readFile(f) ==
    IF f.kind = "missing"
    THEN [ok |-> FALSE, text |-> NoText,
          err |-> ErrorOf(<<"ENOENT: no such file or directory, open '", sourcePath, "'">>)]
    ELSE IF f.kind = "dir"
    THEN [ok |-> FALSE, text |-> NoText,
          err |-> ErrorOf(<<"EISDIR: illegal operation on a directory, read">>)]
    ELSE IF ~f.readable
    THEN [ok |-> FALSE, text |-> NoText,
          err |-> ErrorOf(<<"EACCES: permission denied, open '", sourcePath, "'">>)]
    ELSE [ok |-> TRUE, text |-> f.content, err |-> NoError]

\* yaml.load(yamlContent) / yaml.safeLoad(yamlContent)
yamlLoad(text) ==
    IF text = YamlMalformed
    THEN [ok |-> FALSE, doc |-> NoDoc,
          err |-> ErrorOf(<<"unexpected end of the stream within a flow collection">>)]
    ELSE IF text \in {YamlBlock, YamlFlow}
    THEN [ok |-> TRUE, doc |-> DocFoo, err |-> NoError]
    ELSE [ok |-> TRUE, doc |-> EmptyMapping, err |-> NoError]

\* --------------------------------------------------------------- the loader
Pending == [kind |-> "pending", doc |-> NoDoc, error |-> <<>>]
Resolved(d) == [kind |-> "resolved", doc |-> d, error |-> <<>>]
Rejected(m) == [kind |-> "rejected", doc |-> NoDoc, error |-> m]

\* One invocation of yamlFileLoader.  log is the sequence of logger calls of
\* the invocation; existed, statSaw, readSaw, caught record what the
\* invocation observed; undisturbed says that the entry at sourcePath has not
\* changed since the invocation began.
IdleCall ==
    [loader |-> 0, pc |-> "idle", log |-> <<>>, outcome |-> Pending,
     existed |-> "unchecked", statSaw |-> "none", readSaw |-> "none",
     caught |-> NoError, undisturbed |-> TRUE]

UnbuiltLoader ==
    [state |-> "none", throwOnError |-> "omitted", fsAccess |-> FALSE,
     log |-> <<>>, error |-> <<>>]

\* logger(err, message)
logger(c, err, message) ==
    [c EXCEPT !.log = Append(@, [err |-> err, message |-> message])]

\* Mutant of CatchBlock: the catch block throws whatever throwOnError is.
CatchBlock_alwaysThrows(c, t, err) ==
    LET msg == MsgGeneric(err)
        c1 == logger([c EXCEPT !.caught = err], err, msg)
    IN  [c1 EXCEPT !.pc = "done", !.outcome = Rejected(msg)]

\* Mutant of CatchBlock: the catch block does not call the logger.
CatchBlock_silent(c, t, err) ==
    LET msg == MsgGeneric(err)
    IN  [c EXCEPT !.caught = err, !.pc = "done",
                  !.outcome = IF Truthy(t) THEN Rejected(msg) ELSE Resolved(EmptyMapping)]

\* catch (err) { const msg = ...; logger(err, msg);
\*               if (throwOnError) throw new Error(msg); return {}; }
CatchBlock(c, t, err) ==
    LET msg == MsgGeneric(err)
        c1 == logger([c EXCEPT !.caught = err], err, msg)
    IN  [c1 EXCEPT !.pc = "done",
                   !.outcome = IF Truthy(t) THEN Rejected(msg) ELSE Resolved(EmptyMapping)]

\* Mutant of ExistenceCheck: every text returns {} right after the "404"
\* logger call when throwOnError is off.
ExistenceCheck_shortCircuits(m, c, t, f) ==
    IF m = "legacy"
    THEN [c EXCEPT !.pc = "stat"]
    ELSE IF existsSync(f)
    THEN [c EXCEPT !.pc = "stat", !.existed = "yes"]
    ELSE LET c1 == logger([c EXCEPT !.existed = "no"],
                          PlainObject(<<"not exist">>), MsgNotFound)
         IN  IF Truthy(t)
             THEN [c1 EXCEPT !.pc = "done", !.outcome = Rejected(MsgNotFound)]
             ELSE [c1 EXCEPT !.pc = "done", !.outcome = Resolved(EmptyMapping)]

\* The part of yamlFileLoader that runs before its first await:
\*   legacy      nothing (the loader starts at try { await stat });
\*   current     if (!existsSync) { logger(..404); if (throwOnError) throw }
\*               and on to the stat;
\*   documented  if (!existsSync) { logger(..404); if (throwOnError) throw;
\*               return {} }.
ExistenceCheck(m, c, t, f) ==
    IF m = "legacy"
    THEN [c EXCEPT !.pc = "stat"]
    ELSE IF existsSync(f)
    THEN [c EXCEPT !.pc = "stat", !.existed = "yes"]
    ELSE LET c1 == logger([c EXCEPT !.existed = "no"],
                          PlainObject(<<"not exist">>), MsgNotFound)
         IN  IF Truthy(t)
             THEN [c1 EXCEPT !.pc = "done", !.outcome = Rejected(MsgNotFound)]
             ELSE IF m = "documented"
             THEN [c1 EXCEPT !.pc = "done", !.outcome = Resolved(EmptyMapping)]
             ELSE [c1 EXCEPT !.pc = "stat"]

\* The path is there and fstat.isFile() is false:
\*   legacy      throw new Error(`Source ... is not a file`), inside the try;
\*   current, documented
\*               logger({msg}, msg); if (throwOnError) throw new Error(msg),
\*               inside the try as well; return {}.
NotAFile(m, c, t) ==
    IF m = "legacy"
    THEN CatchBlock(c, t, ErrorOf(MsgNotAFile))
    ELSE LET c1 == logger(c, PlainObject(MsgNotAFile), MsgNotAFile)
         IN  IF Truthy(t)
             THEN CatchBlock(c1, t, ErrorOf(MsgNotAFile))
             ELSE [c1 EXCEPT !.pc = "done", !.outcome = Resolved(EmptyMapping)]

\* const fstat = await stat(sourcePath); if (fstat.isFile()) ... : the
\* continuation that runs when the stat settles, against the entry f.
TypeCheck(m, c, t, f) ==
    LET s == stat(f)
    IN  IF ~s.ok
        THEN CatchBlock([c EXCEPT !.statSaw = "error"], t, s.err)
        ELSE IF s.isFile
        THEN [c EXCEPT !.statSaw = "file", !.pc = "read"]
        ELSE NotAFile(m, [c EXCEPT !.statSaw = "notfile"], t)

\* Mutant of ReadAndParse: a parsed document is replaced by {}.
ReadAndParse_dropsDocument(c, t, f) ==
    LET r == readFile(f)
        p == yamlLoad(r.text)
    IN  IF ~r.ok
        THEN CatchBlock([c EXCEPT !.readSaw = "error"], t, r.err)
        ELSE IF ~p.ok
        THEN CatchBlock([c EXCEPT !.readSaw = r.text], t, p.err)
        ELSE [c EXCEPT !.readSaw = r.text, !.pc = "done",
                       !.outcome = Resolved(EmptyMapping)]

\* const yamlContent = await readFile(...); return yaml.load(yamlContent):
\* the continuation that runs when the read settles, against the entry f.
ReadAndParse(c, t, f) ==
    LET r == readFile(f)
        p == yamlLoad(r.text)
    IN  IF ~r.ok
        THEN CatchBlock([c EXCEPT !.readSaw = "error"], t, r.err)
        ELSE IF ~p.ok
        THEN CatchBlock([c EXCEPT !.readSaw = r.text], t, p.err)
        ELSE [c EXCEPT !.readSaw = r.text, !.pc = "done", !.outcome = Resolved(p.doc)]

\* yamlLoader(config, ...filePathToken), the factory:
\*   legacy      if (!fs.existsSync) { logger(..404); if (throwOnError) throw }
\*               return the loader;
\*   current, documented
\*               return the loader.
yamlLoader(m, t, f) ==
    LET b == [UnbuiltLoader EXCEPT !.state = "built", !.throwOnError = t]
    IN  IF m # "legacy"
        THEN b
        ELSE IF existsSync(f)
        THEN [b EXCEPT !.fsAccess = TRUE]
        ELSE LET b1 == [logger(b, PlainObject(<<"not exist">>), MsgNotFound)
                           EXCEPT !.fsAccess = TRUE]
             IN  IF Truthy(t)
                 THEN [b1 EXCEPT !.state = "threw", !.error = MsgNotFound]
                 ELSE b1

\* ------------------------------------------------------------------ actions
\* A caller constructs loader l with throwOnError = t.
Create(l, t) ==
    /\ loader[l].state = "none"
    /\ l > 1 => loader[l - 1].state # "none"
    /\ loader' = [loader EXCEPT ![l] = yamlLoader(impl, t, fs)]
    /\ UNCHANGED <<impl, fs, call>>

\* A caller invokes loader l; the invocation runs to its first await.
yamlFileLoader(i, l) ==
    /\ call[i].pc = "idle"
    /\ i > 1 => call[i - 1].pc # "idle"
    /\ loader[l].state = "built"
    /\ call' = [call EXCEPT ![i] =
                   ExistenceCheck(impl,
                                  [IdleCall EXCEPT !.loader = l],
                                  loader[l].throwOnError, fs)]
    /\ UNCHANGED <<impl, fs, loader>>

\* The stat of invocation i settles.
StatDone(i) ==
    /\ call[i].pc = "stat"
    /\ call' = [call EXCEPT ![i] =
                   TypeCheck(impl, call[i],
                             loader[call[i].loader].throwOnError, fs)]
    /\ UNCHANGED <<impl, fs, loader>>

\* Mutant of ReadDone: the loader memoizes; once one of its invocations has
\* settled, later ones settle the same way without looking at the file.
ReadDone_memoized(i) ==
    /\ call[i].pc = "read"
    /\ call' = [call EXCEPT ![i] =
                   IF \E j \in Calls : /\ call[j].pc = "done"
                                        /\ call[j].loader = call[i].loader
                   THEN LET j == CHOOSE j \in Calls : /\ call[j].pc = "done"
                                                      /\ call[j].loader = call[i].loader
                        IN  [call[i] EXCEPT !.pc = "done", !.outcome = call[j].outcome,
                                            !.log = call[j].log]
                   ELSE ReadAndParse(call[i], loader[call[i].loader].throwOnError, fs)]
    /\ UNCHANGED <<impl, fs, loader>>

\* Mutant of ReadDone: reads of the same path are coalesced; an invocation
\* whose read settles while another invocation holds a text takes that text.
ReadDone_coalesced(i) ==
    /\ call[i].pc = "read"
    /\ call' = [call EXCEPT ![i] =
                   IF \E j \in Calls : j # i /\ call[j].readSaw \in Contents
                   THEN LET j == CHOOSE j \in Calls : j # i /\ call[j].readSaw \in Contents
                        IN  ReadAndParse(call[i], loader[call[i].loader].throwOnError,
                                         FsFile(call[j].readSaw))
                   ELSE ReadAndParse(call[i], loader[call[i].loader].throwOnError, fs)]
    /\ UNCHANGED <<impl, fs, loader>>

\* The readFile of invocation i settles.
ReadDone(i) ==
    /\ call[i].pc = "read"
    /\ call' = [call EXCEPT ![i] =
                   ReadAndParse(call[i],
                                loader[call[i].loader].throwOnError, fs)]
    /\ UNCHANGED <<impl, fs, loader>>

\* The environment changes the entry at sourcePath (the tests' rmSync and
\* copyFileSync, or another process).
FsChange(f) ==
    /\ f # fs
    /\ fs' = f
    /\ call' = [i \in Calls |->
                   IF call[i].pc = "idle" THEN call[i]
                   ELSE [call[i] EXCEPT !.undisturbed = FALSE]]
    /\ UNCHANGED <<impl, loader>>

\* ------------------------------------------------------------------- claims
Started == {i \in Calls : call[i].pc # "idle"}
Settled == {i \in Calls : call[i].pc = "done"}

\* throwOnError of the loader that invocation i runs.
ThrowOnErrorOf(i) == loader[call[i].loader].throwOnError

Contains(message, token) == \E k \in 1..Len(message) : message[k] = token

\* What invocation i met.
SawMissing(i) == call[i].existed = "no"
SawNotAFile(i) == call[i].statSaw = "notfile"
SawFailure(i) ==
    \/ call[i].statSaw = "error"
    \/ call[i].readSaw = "error"
    \/ call[i].readSaw = YamlMalformed
\* The error conditions: the path missing (at the existence check, and the
\* invocation ended there or the stat did not find it either), not a file, or
\* a failure of the stat, the read or the parse.  A path that the existence
\* check did not find and the stat and the read then did is none of them.
ErrorCondition(i) ==
    \/ SawMissing(i) /\ call[i].statSaw \in {"none", "error"}
    \/ SawNotAFile(i)
    \/ SawFailure(i)

\* The errors stat, readFile and the parser raise.
StatErrors == {stat(f).err : f \in {g \in FsStates : ~stat(g).ok}}
ReadErrors == {readFile(f).err : f \in {g \in FsStates : ~readFile(g).ok}}
ParseErrors == {yamlLoad(x).err : x \in {y \in Contents : ~yamlLoad(y).ok}}

\* C1: with throwOnError false or omitted (and the default logger, which does
\* not throw) an invocation never rejects and, until it has settled, can
\* always take its next step; an invocation that met an error
\* condition (path missing, not a file, stat, read or parse failure, also
\* after the path disappeared behind the existence check) resolves to {}.
C1_NeverRejects ==
    \A i \in Started :
        ~Truthy(ThrowOnErrorOf(i)) =>
            /\ call[i].outcome.kind # "rejected"
            /\ i \notin Settled => ENABLED (StatDone(i) \/ ReadDone(i))
            /\ (i \in Settled /\ ErrorCondition(i)) =>
                   call[i].outcome = Resolved(EmptyMapping)

\* C1 witness: throwOnError omitted, the path passed the existence check and
\* was gone at the stat; the invocation resolved to {}.
C1_Witness ==
    \E i \in Settled :
        /\ ThrowOnErrorOf(i) = "omitted"
        /\ call[i].existed = "yes"
        /\ call[i].statSaw = "error"
        /\ call[i].outcome = Resolved(EmptyMapping)

\* C2: with throwOnError = true and sourcePath missing at the existence check,
\* it is the invocation that rejects, with exactly "<sourcePath> 404"; the
\* construction call does not throw.
C2_NotFoundRejectsAtInvocation ==
    /\ \A l \in Loaders : loader[l].state # "threw"
    /\ \A i \in Started :
           (Truthy(ThrowOnErrorOf(i)) /\ SawMissing(i)) =>
               /\ i \in Settled
               /\ call[i].outcome = Rejected(<<sourcePath, " 404">>)

\* C3: with throwOnError = true and sourcePath a directory, the invocation
\* rejects with exactly "Source <sourcePath> is not a file".
C3_NotAFileRejectsUnwrapped ==
    \A i \in Settled :
        (Truthy(ThrowOnErrorOf(i)) /\ SawNotAFile(i)) =>
            call[i].outcome = Rejected(<<"Source ", sourcePath, " is not a file">>)

\* C4: when the existence check passed (or was made by the factory) and the
\* stat, the read or the parse then failed, the invocation rejects with
\* "FILE DELETED OR A DIRECTORY-> <sourcePath> 404: " followed by the message
\* of the error that stat, readFile or the parser raised (throwOnError true),
\* or resolves to {} (throwOnError false or omitted).
C4_GenericFailure ==
    \A i \in Settled :
        (call[i].existed # "no" /\ SawFailure(i)) =>
            /\ call[i].caught \in
                   (IF call[i].statSaw = "error" THEN StatErrors
                    ELSE IF call[i].readSaw = "error" THEN ReadErrors
                    ELSE ParseErrors)
            /\ call[i].outcome =
                   IF Truthy(ThrowOnErrorOf(i))
                   THEN Rejected(<<"FILE DELETED OR A DIRECTORY-> ", sourcePath, " 404: ">>
                                 \o (IF call[i].caught.isError
                                     THEN call[i].caught.message ELSE <<>>))
                   ELSE Resolved(EmptyMapping)

\* C4 witness: throwOnError true, the file passed the stat and was gone at the
\* read; the invocation rejected with the ENOENT text appended.
C4_Witness ==
    \E i \in Settled :
        /\ Truthy(ThrowOnErrorOf(i))
        /\ call[i].statSaw = "file"
        /\ call[i].readSaw = "error"
        /\ call[i].outcome.kind = "rejected"
        /\ Len(call[i].outcome.error) > 3
        /\ call[i].outcome.error[4] = "ENOENT: no such file or directory, open '"

\* C5: constructing a loader never throws and does not touch the filesystem
\* (nor, having seen nothing, calls the logger).
C5_ConstructionIsPure ==
    \A l \in Loaders :
        /\ loader[l].state # "threw"
        /\ ~loader[l].fsAccess
        /\ loader[l].log = <<>>

\* C6: an invocation that met an error condition has called the logger exactly
\* once, with a message that contains sourcePath.
C6_LoggedExactlyOnce ==
    \A i \in Settled :
        ErrorCondition(i) =>
            /\ Len(call[i].log) = 1
            /\ Contains(call[i].log[1].message, sourcePath)

\* C7: sourcePath is a readable regular file of well-formed YAML and has not
\* changed since the invocation began: the invocation resolves to the document
\* the parser yields for the text, without a logger call.
C7_ParsedDocument ==
    \A i \in Settled :
        (/\ call[i].undisturbed
         /\ fs.kind = "file" /\ fs.readable
         /\ yamlLoad(fs.content).ok) =>
            /\ call[i].outcome.kind = "resolved"
            /\ call[i].outcome.doc = yamlLoad(fs.content).doc
            /\ fs.content \in {YamlBlock, YamlFlow} => call[i].outcome.doc = DocFoo
            /\ call[i].log = <<>>

\* C7 witness: throwOnError true, the file holds foo: {ciao: mondo} and the
\* invocation resolved to {foo: {ciao: 'mondo'}}.
C7_Witness ==
    \E i \in Settled :
        /\ Truthy(ThrowOnErrorOf(i))
        /\ call[i].undisturbed
        /\ fs = FsFile(YamlBlock)
        /\ call[i].outcome = Resolved(DocFoo)

\* An invocation of a freshly constructed loader with throwOnError = t, run
\* from its call to its end against the entry f.
FreshRun(m, t, f) ==
    LET c0 == ExistenceCheck(m, IdleCall, t, f)
        c1 == IF c0.pc = "stat" THEN TypeCheck(m, c0, t, f) ELSE c0
        c2 == IF c1.pc = "read" THEN ReadAndParse(c1, t, f) ELSE c1
    IN  c2

\* C8: the loader keeps nothing from earlier calls.  Whatever invocations and
\* filesystem changes came before, an invocation during which sourcePath did
\* not change ends as the invocation of a fresh loader with the same config
\* would against that entry (same result, same logger calls); so two
\* invocations against the same unchanged entry, with the same config, end
\* alike.
C8_NoMemory ==
    /\ \A i \in Settled :
           call[i].undisturbed =>
               /\ call[i].outcome = FreshRun(impl, ThrowOnErrorOf(i), fs).outcome
               /\ call[i].log = FreshRun(impl, ThrowOnErrorOf(i), fs).log
    /\ \A i, j \in Settled :
           (/\ call[i].undisturbed /\ call[j].undisturbed
            /\ ThrowOnErrorOf(i) = ThrowOnErrorOf(j)) =>
               call[i].outcome = call[j].outcome

\* C8 witness: one loader, invoked twice; the first invocation resolved to the
\* document of the file, the file was then deleted, and the second invocation
\* saw that.
C8_Witness ==
    \E i, j \in Settled :
        /\ i < j
        /\ call[i].loader = call[j].loader
        /\ call[i].outcome = Resolved(DocFoo)
        /\ ~call[i].undisturbed
        /\ call[j].undisturbed
        /\ call[j].statSaw \in {"file", "notfile", "error"}
        /\ fs = FsMissing
        /\ call[j].outcome # call[i].outcome

\* The result of an invocation that did not come from parsing the file.
Fallback(i) ==
    /\ call[i].outcome = Resolved(EmptyMapping)
    /\ ~(call[i].readSaw \in Contents /\ yamlLoad(call[i].readSaw).ok)

\* C9: an invocation that ended in a rejection or in the fallback {} has
\* called the logger.
C9_LoggedBeforeFailing ==
    \A i \in Settled :
        (call[i].outcome.kind = "rejected" \/ Fallback(i)) => Len(call[i].log) >= 1

\* C9 witness: a directory, throwOnError false: {} after a logger call.
C9_Witness ==
    \E i \in Settled :
        /\ ThrowOnErrorOf(i) = "false"
        /\ SawNotAFile(i)
        /\ Fallback(i)
        /\ Len(call[i].log) >= 1

\* What the continuation of a read gives against the entry f.
ReadResult(t, f) ==
    IF readFile(f).ok /\ yamlLoad(readFile(f).text).ok
    THEN Resolved(yamlLoad(readFile(f).text).doc)
    ELSE IF Truthy(t)
    THEN Rejected(<<"FILE DELETED OR A DIRECTORY-> ", sourcePath, " 404: ">>
                  \o (IF readFile(f).ok THEN yamlLoad(readFile(f).text).err.message
                      ELSE readFile(f).err.message))
    ELSE Resolved(EmptyMapping)

\* C10: invocations do not influence one another.  A step of one invocation
\* leaves every other invocation as it was, and an invocation whose read
\* settles ends with the parse of what is on disk at that moment, whatever
\* other invocations (of the same or of another loader) have seen or are doing.
C10_Independent ==
    [][\A i \in Calls :
           /\ (call[i].pc = "read" /\ call'[i].pc = "done") =>
                  call'[i].outcome = ReadResult(ThrowOnErrorOf(i), fs)
           /\ (call'[i].pc # call[i].pc) =>
                  \A j \in Calls \ {i} : call'[j] = call[j]]_vars

\* C10 witness: two invocations of two loaders in flight together.  The second
\* has read foo: {ciao: mondo} and resolved to its parse; the file was then
\* replaced, and the first, begun earlier, is still waiting for its read.
C10_Witness ==
    /\ call[1].pc = "read"
    /\ call[2].pc = "done"
    /\ call[1].loader # call[2].loader
    /\ call[2].readSaw = YamlBlock
    /\ call[2].outcome = Resolved(DocFoo)
    /\ fs = FsFile(YamlEmptyMap)

\* The messages of the logger calls of invocation i, in order.
LogMessages(i) == [k \in 1..Len(call[i].log) |-> call[i].log[k].message]

\* Invocation i has settled, throwOnError is off, and sourcePath has been
\* missing since the invocation began.
MissingAllAlong(i) ==
    /\ i \in Settled
    /\ ~Truthy(ThrowOnErrorOf(i))
    /\ call[i].undisturbed
    /\ fs = FsMissing

NotFoundLine == <<sourcePath, " 404">>
StatFailedLine ==
    <<"FILE DELETED OR A DIRECTORY-> ", sourcePath, " 404: ",
      "ENOENT: no such file or directory, stat '", sourcePath, "'">>

ParsedFromFile(i) ==
    /\ i \in Settled
    /\ call[i].outcome.kind = "resolved"
    /\ call[i].readSaw \in Contents
    /\ yamlLoad(call[i].readSaw).ok

\* C12: an invocation resolves to a document parsed from the file only if it
\* has not called the logger; one that has logged an error condition ends in
\* {} or in a rejection, under every interleaving with changes of the file.
C12_ParsedOnlyIfSilent ==
    \A i \in Calls : ParsedFromFile(i) => call[i].log = <<>>

TypeOK ==
    /\ impl \in Impls
    /\ fs \in FsStates
    /\ DOMAIN loader = Loaders
    /\ DOMAIN call = Calls
    /\ \A i \in Calls : call[i].pc \in {"idle", "stat", "read", "done"}

Init ==
    /\ impl \in Impls
    /\ fs \in FsStates
    /\ loader = [l \in Loaders |-> UnbuiltLoader]
    /\ call = [i \in Calls |-> IdleCall]

Next ==
    \/ \E l \in Loaders, t \in ThrowOnErrorValues : Create(l, t)
    \/ \E i \in Calls, l \in Loaders : yamlFileLoader(i, l)
    \/ \E i \in Calls : StatDone(i)
    \/ \E i \in Calls : ReadDone(i)
    \/ \E f \in FsStates : FsChange(f)

Spec == Init /\ [][Next]_vars
====
